---- MODULE Spec2Model ----
(***************************************************************************)
(* Model of src/src/main.js: calculateSimpleRevenue, calculateBonusByProfit *)
(* and analyzeSalesData.                                                    *)
(*                                                                          *)
(* Representation.                                                          *)
(*  - A JavaScript string used as a property key (seller id, sku) is a      *)
(*    tuple of one-character strings, so that the integer-like keys that    *)
(*    JavaScript objects enumerate first can be recognised.  "" is << >>.   *)
(*  - A JavaScript value read through typeof is a tagged record             *)
(*    [t |-> "number", v |-> n] or [t |-> "string", v |-> 0].               *)
(*  - Money is an integer number of mills (0.001); toFixed(2) rounds to a   *)
(*    multiple of 10 mills.  Binary floating-point error is not modelled;   *)
(*    the prices enumerated are multiples of 4 mills, so no amount given to *)
(*    toFixed in the pipeline lies exactly between two cents.               *)
(*  - A JavaScript object used as a dictionary is [keys, val]: the keys in  *)
(*    insertion order and the value of each key.                            *)
(*  - A property of data that is present holds an array, and the index and  *)
(*    total given to calculateBonusByProfit are numbers, so the              *)
(*    Array.isArray and typeof index tests never fail.  Keys are at most 9   *)
(*    characters long, so every canonical decimal key is an array index.     *)
(***************************************************************************)
EXTENDS Integers, Sequences, FiniteSets, TLC

VARIABLES
    data,           \* the dataset argument; its seller objects are shared with the caller
    input,          \* the dataset as it was passed (history, never changed)
    options,        \* the options argument
    pc,             \* position in analyzeSalesData
    error,          \* message of the Error thrown, "" when none
    sellersStats,   \* const sellersStats = {}
    sellersMap,     \* const sellersMap = {}; a value is the position of the seller object in data.sellers
    productsMap,    \* const productsMap = {}
    cursor,         \* index of the next purchase record / next sorted seller
    sortedSellers,  \* const sortedSellers
    result,         \* the array returned
    bpc,            \* position in a direct call of calculateBonusByProfit
    bIndex,         \* its arguments: index, total, seller
    bTotal,
    bSeller,
    bonusRate,      \* let bonusRate
    bResult,        \* its return value
    bError          \* message of the Error it throws

vars == <<data, input, options, pc, error, sellersStats, sellersMap, productsMap,
          cursor, sortedSellers, result, bpc, bIndex, bTotal, bSeller, bonusRate,
          bResult, bError>>

pipelineVars == <<data, input, options, pc, error, sellersStats, sellersMap,
                  productsMap, cursor, sortedSellers, result>>

bonusVars == <<bpc, bIndex, bTotal, bSeller, bonusRate, bResult, bError>>

----------------------------------------------------------------------------
(* JavaScript values *)

Num(n) == [t |-> "number", v |-> n]
NotANumber == [t |-> "string", v |-> 0]
IsNumber(x) == x.t = "number"

Range(s) == {s[i] : i \in DOMAIN s}

SeqsUpTo(S, n) == UNION {[1..k -> S] : k \in 0..n}

Abs(x) == IF x < 0 THEN -x ELSE x

\* Number.prototype.toFixed(2) followed by Number(...): the closest number of
\* cents, the larger magnitude when two are equally close.  x is given in units
\* of which `unit` make one cent; the result is in cents.
RoundToCents(x, unit) ==
    LET n == (2 * Abs(x) + unit) \div (2 * unit)
    IN  IF x < 0 THEN -n ELSE n

\* toFixed(2) of an amount in mills, in mills
ToFixed2(x) == 10 * RoundToCents(x, 10)

----------------------------------------------------------------------------
(* Property keys and key order of ordinary objects *)

Digits == {"0", "1", "2", "3", "4", "5", "6", "7", "8", "9"}

DigitVal(c) ==
    CASE c = "0" -> 0 [] c = "1" -> 1 [] c = "2" -> 2 [] c = "3" -> 3
      [] c = "4" -> 4 [] c = "5" -> 5 [] c = "6" -> 6 [] c = "7" -> 7
      [] c = "8" -> 8 [] c = "9" -> 9

RECURSIVE ToInteger(_)
ToInteger(s) ==
    IF s = <<>> THEN 0
    ELSE 10 * ToInteger(SubSeq(s, 1, Len(s) - 1)) + DigitVal(s[Len(s)])

\* A key is an array index when it is the canonical decimal form of an
\* integer in 0 .. 2^32 - 2.
IsArrayIndex(s) ==
    /\ Len(s) > 0
    /\ Len(s) <= 9
    /\ \A i \in 1..Len(s) : s[i] \in Digits
    /\ (Len(s) = 1 \/ s[1] # "0")

EmptyObject == [keys |-> <<>>, val |-> <<>>]

HasKey(o, k) == k \in Range(o.keys)

\* o[k] = v
Put(o, k, v) ==
    [keys |-> IF HasKey(o, k) THEN o.keys ELSE Append(o.keys, k),
     val  |-> [x \in Range(o.keys) \cup {k} |-> IF x = k THEN v ELSE o.val[x]]]

RECURSIVE AscendingIndices(_)
AscendingIndices(S) ==
    IF S = {} THEN <<>>
    ELSE LET m == CHOOSE x \in S : \A y \in S : ToInteger(x) <= ToInteger(y)
         IN  <<m>> \o AscendingIndices(S \ {m})

\* OrdinaryOwnPropertyKeys: array-index keys in ascending numeric order, then
\* the other string keys in the order they were created.
OwnKeys(o) ==
    AscendingIndices({k \in Range(o.keys) : IsArrayIndex(k)})
        \o SelectSeq(o.keys, LAMBDA k : ~IsArrayIndex(k))

\* Object.values(o)
ObjectValues(o) == [i \in 1..Len(OwnKeys(o)) |-> o.val[OwnKeys(o)[i]]]

----------------------------------------------------------------------------
(* Array.prototype.sort((a, b) => b.profit - a.profit): a stable sort *)

RECURSIVE InsertByProfit(_, _)
InsertByProfit(sorted, x) ==
    IF sorted = <<>> THEN <<x>>
    ELSE IF sorted[Len(sorted)].profit >= x.profit THEN Append(sorted, x)
    ELSE Append(InsertByProfit(SubSeq(sorted, 1, Len(sorted) - 1), x),
                sorted[Len(sorted)])

RECURSIVE SortByProfitDesc(_)
SortByProfitDesc(s) ==
    IF s = <<>> THEN <<>>
    ELSE InsertByProfit(SortByProfitDesc(SubSeq(s, 1, Len(s) - 1)), s[Len(s)])

\* Array.prototype.slice(0, n)
Slice(s, n) == SubSeq(s, 1, IF Len(s) < n THEN Len(s) ELSE n)

----------------------------------------------------------------------------
(* Error messages *)

ErrPurchaseData == "Invalid purchase data structure"
ErrItemData == "Invalid item data structure"
ErrBonusParams == "Invalid input parameters"
ErrIndexRange == "Index out of range"
ErrSellerProfit == "Seller profit must be a number"
ErrDataObject == "Data must be an object"
ErrDataStructure == "Invalid data structure"
ErrSellersEmpty == "sellers list is empty"
ErrProductsEmpty == "products list is empty"
ErrPurchasesEmpty == "purchase list is empty"
ErrOptionsObject == "Options must be an object"
ErrRevenueRequired == "calculateRevenue function is required"
ErrBonusRequired == "calculateBonus function is required"
ErrSeller == "Invalid seller structure"
ErrProduct == "Invalid product structure"
ErrPurchase == "Invalid purchase structure"
ErrItem == "Invalid item structure"

NullValue == [null |-> TRUE]
IsNull(x) == "null" \in DOMAIN x
Has(o, f) == f \in DOMAIN o

----------------------------------------------------------------------------
(* calculateSimpleRevenue *)

RECURSIVE SumItems(_, _, _)
SumItems(items, i, revenue) ==
    IF i > Len(items) THEN [err |-> "", v |-> ToFixed2(revenue)]
    ELSE IF ~IsNumber(items[i].sale_price) \/ ~IsNumber(items[i].quantity)
         THEN [err |-> ErrItemData, v |-> 0]
    ELSE SumItems(items, i + 1, revenue + items[i].sale_price.v * items[i].quantity.v)

calculateSimpleRevenue(purchase) ==
    IF IsNull(purchase) \/ ~Has(purchase, "items")
    THEN [err |-> ErrPurchaseData, v |-> 0]
    ELSE SumItems(purchase.items, 1, 0)

----------------------------------------------------------------------------
(* calculateBonusByProfit *)

SeniorSeller == "Senior Seller"

BonusArgsError(index, total, seller) ==
    IF IsNull(seller) THEN ErrBonusParams
    ELSE IF index < 0 \/ index >= total THEN ErrIndexRange
    ELSE IF ~Has(seller, "profit") \/ ~IsNumber(seller.profit) THEN ErrSellerProfit
    ELSE ""

\* BonusRate with the second-to-last band tested before the second and third place
BonusRateTailFirst(index, total) ==
    IF index = 0 THEN 15
    ELSE IF index = total - 2 THEN 5
    ELSE IF index <= 2 THEN 10
    ELSE 0

\* BonusRate with the 5% band on the last rank
BonusRateLast(index, total) ==
    IF index = 0 THEN 15
    ELSE IF index <= 2 THEN 10
    ELSE IF index = total - 1 THEN 5
    ELSE 0

\* let bonusRate, in percent
BonusRate(index, total) ==
    IF index = 0 THEN 15
    ELSE IF index <= 2 THEN 10
    ELSE IF index = total - 2 THEN 5
    ELSE 0

\* const positionMultiplier, in tenths
PositionMultiplier(seller) ==
    IF Has(seller, "position") /\ seller.position = SeniorSeller THEN 15 ELSE 10

\* seller.profit is in mills, so the product is in units of 10^-6 and a cent
\* is 10000 of them; the value returned is in mills.
BonusAmount(profit, rate, multiplier) ==
    10 * RoundToCents(profit * rate * multiplier, 10000)

calculateBonusByProfit(index, total, seller) ==
    LET e == BonusArgsError(index, total, seller)
    IN  IF e # "" THEN [err |-> e, rate |-> 0, v |-> 0]
        ELSE [err  |-> "",
              rate |-> BonusRate(index, total),
              v    |-> BonusAmount(seller.profit.v, BonusRate(index, total),
                                   PositionMultiplier(seller))]

\* a call of a value found in options
CallRevenue(f, purchase) == calculateSimpleRevenue(purchase)
CallBonus(f, index, total, seller) == calculateBonusByProfit(index, total, seller)

Functions == {"calculateSimpleRevenue", "calculateBonusByProfit"}
IsFunction(o, f) == Has(o, f) /\ o[f] \in Functions

----------------------------------------------------------------------------
(* analyzeSalesData *)

\* ValidationError with the options checked before the dataset
ValidationErrorOptionsFirst(d, o) ==
    IF IsNull(o) THEN ErrOptionsObject
    ELSE IF ~IsFunction(o, "calculateRevenue") THEN ErrRevenueRequired
    ELSE IF ~IsFunction(o, "calculateBonus") THEN ErrBonusRequired
    ELSE IF IsNull(d) THEN ErrDataObject
    ELSE IF ~Has(d, "sellers") \/ ~Has(d, "products") \/ ~Has(d, "purchase_records")
         THEN ErrDataStructure
    ELSE IF Len(d.sellers) = 0 THEN ErrSellersEmpty
    ELSE IF Len(d.products) = 0 THEN ErrProductsEmpty
    ELSE IF Len(d.purchase_records) = 0 THEN ErrPurchasesEmpty
    ELSE ""

\* lines 70-98; a property of data that is present is an array
ValidationError(d, o) ==
    IF IsNull(d) THEN ErrDataObject
    ELSE IF ~Has(d, "sellers") \/ ~Has(d, "products") \/ ~Has(d, "purchase_records")
         THEN ErrDataStructure
    ELSE IF Len(d.sellers) = 0 THEN ErrSellersEmpty
    ELSE IF Len(d.products) = 0 THEN ErrProductsEmpty
    ELSE IF Len(d.purchase_records) = 0 THEN ErrPurchasesEmpty
    ELSE IF IsNull(o) THEN ErrOptionsObject
    ELSE IF ~IsFunction(o, "calculateRevenue") THEN ErrRevenueRequired
    ELSE IF ~IsFunction(o, "calculateBonus") THEN ErrBonusRequired
    ELSE ""

\* the object stored in sellersStats[seller.id]
NewStat(seller) ==
    [seller_id   |-> seller.id,
     name        |-> <<seller.first_name, " ", seller.last_name>>,
     revenue     |-> 0,
     profit      |-> 0,
     sales_count |-> 0,
     products    |-> EmptyObject]

\* for (const seller of data.sellers)
RECURSIVE IndexSellersLoop(_, _, _, _)
IndexSellersLoop(sellers, i, map, stats) ==
    IF i > Len(sellers) THEN [err |-> "", map |-> map, stats |-> stats]
    ELSE IF sellers[i].id = <<>> \/ sellers[i].first_name = "" \/ sellers[i].last_name = ""
         THEN [err |-> ErrSeller, map |-> map, stats |-> stats]
    ELSE IndexSellersLoop(sellers, i + 1, Put(map, sellers[i].id, i),
                          Put(stats, sellers[i].id, NewStat(sellers[i])))

\* for (const product of data.products)
RECURSIVE IndexProductsLoop(_, _, _)
IndexProductsLoop(products, i, map) ==
    IF i > Len(products) THEN [err |-> "", map |-> map]
    ELSE IF products[i].sku = <<>> \/ products[i].name = ""
              \/ ~IsNumber(products[i].purchase_price)
         THEN [err |-> ErrProduct, map |-> map]
    ELSE IndexProductsLoop(products, i + 1, Put(map, products[i].sku, products[i]))

\* sellerStat.sales_count += 1
CountSale(stat) == [stat EXCEPT !.sales_count = @ + 1]

\* lines 156-171: one resolved item added to the seller's totals
AddItem(stat, item, product, itemRevenue) ==
    LET itemProfit == itemRevenue - product.purchase_price.v * item.quantity.v
        old == IF HasKey(stat.products, item.sku)
               THEN stat.products.val[item.sku]
               ELSE [count |-> 0, profit |-> 0]
    IN  [stat EXCEPT
            !.revenue  = @ + itemRevenue,
            !.profit   = @ + itemProfit,
            !.products = Put(@, item.sku,
                             [count  |-> old.count + item.quantity.v,
                              profit |-> old.profit + itemProfit])]

\* for (const item of purchase.items)
RECURSIVE ItemsLoop(_, _, _, _, _)
ItemsLoop(items, j, stat, pmap, opts) ==
    IF j > Len(items) THEN [err |-> "", stat |-> stat]
    ELSE IF items[j].sku = <<>> \/ ~IsNumber(items[j].sale_price)
              \/ ~IsNumber(items[j].quantity)
         THEN [err |-> ErrItem, stat |-> stat]
    ELSE IF ~HasKey(pmap, items[j].sku) THEN ItemsLoop(items, j + 1, stat, pmap, opts)
    ELSE LET r == CallRevenue(opts.calculateRevenue, [items |-> <<items[j]>>])
         IN  IF r.err # "" THEN [err |-> r.err, stat |-> stat]
             ELSE ItemsLoop(items, j + 1,
                            AddItem(stat, items[j], pmap.val[items[j].sku], r.v),
                            pmap, opts)

\* PurchaseStep with sales_count counting line items instead of records
PurchaseStepCountingItems(purchase, stats, pmap, opts) ==
    IF purchase.seller_id = <<>> \/ ~Has(purchase, "items")
    THEN [err |-> ErrPurchase, stats |-> stats]
    ELSE IF ~HasKey(stats, purchase.seller_id) THEN [err |-> "", stats |-> stats]
    ELSE LET counted == [stats.val[purchase.seller_id] EXCEPT
                            !.sales_count = @ + Len(purchase.items)]
             r == ItemsLoop(purchase.items, 1, counted, pmap, opts)
         IN  [err |-> r.err, stats |-> Put(stats, purchase.seller_id, r.stat)]

\* lines 135-172: the body of the loop over data.purchase_records
PurchaseStep(purchase, stats, pmap, opts) ==
    IF purchase.seller_id = <<>> \/ ~Has(purchase, "items")
    THEN [err |-> ErrPurchase, stats |-> stats]
    ELSE IF ~HasKey(stats, purchase.seller_id) THEN [err |-> "", stats |-> stats]
    ELSE LET r == ItemsLoop(purchase.items, 1,
                            CountSale(stats.val[purchase.seller_id]), pmap, opts)
         IN  [err |-> r.err, stats |-> Put(stats, purchase.seller_id, r.stat)]

\* RankSellers leaving out the sellers without a purchase record
RankSellersWithSales(stats) ==
    SortByProfitDesc(SelectSeq(ObjectValues(stats), LAMBDA st : st.sales_count > 0))

\* Object.values(sellersStats).sort((a, b) => b.profit - a.profit)
RankSellers(stats) == SortByProfitDesc(ObjectValues(stats))

TopCount == 3

\* lines 189-197
TopProducts(stat, pmap) ==
    LET keys == OwnKeys(stat.products)
        entries == [i \in 1..Len(keys) |->
                      [sku    |-> keys[i],
                       name   |-> IF HasKey(pmap, keys[i]) THEN pmap.val[keys[i]].name
                                  ELSE "Unknown",
                       count  |-> stat.products.val[keys[i]].count,
                       profit |-> ToFixed2(stat.products.val[keys[i]].profit)]]
    IN  Slice(SortByProfitDesc(entries), TopCount)

\* sellerInfo.profit = seller.profit
WithProfit(sellerInfo, profit) ==
    [f \in DOMAIN sellerInfo \cup {"profit"} |->
        IF f = "profit" THEN Num(profit) ELSE sellerInfo[f]]

\* lines 203-211
Report(stat) ==
    [seller_id    |-> stat.seller_id,
     name         |-> stat.name,
     revenue      |-> ToFixed2(stat.revenue),
     profit       |-> ToFixed2(stat.profit),
     sales_count  |-> stat.sales_count,
     bonus        |-> stat.bonus,
     top_products |-> stat.top_products]

Throw(e) ==
    /\ pc' = "failed"
    /\ error' = e

Validate ==
    /\ pc = "validate"
    /\ LET e == ValidationError(data, options)
       IN  IF e # "" THEN Throw(e)
           ELSE pc' = "indexSellers" /\ UNCHANGED error
    /\ UNCHANGED <<data, input, options, sellersStats, sellersMap, productsMap,
                   cursor, sortedSellers, result, bonusVars>>

IndexSellers ==
    /\ pc = "indexSellers"
    /\ LET r == IndexSellersLoop(data.sellers, 1, EmptyObject, EmptyObject)
       IN  IF r.err # "" THEN Throw(r.err) /\ UNCHANGED <<sellersMap, sellersStats>>
           ELSE /\ pc' = "indexProducts"
                /\ sellersMap' = r.map
                /\ sellersStats' = r.stats
                /\ UNCHANGED error
    /\ UNCHANGED <<data, input, options, productsMap, cursor, sortedSellers, result,
                   bonusVars>>

IndexProducts ==
    /\ pc = "indexProducts"
    /\ LET r == IndexProductsLoop(data.products, 1, EmptyObject)
       IN  IF r.err # "" THEN Throw(r.err) /\ UNCHANGED productsMap
           ELSE /\ pc' = "aggregate"
                /\ productsMap' = r.map
                /\ UNCHANGED error
    /\ UNCHANGED <<data, input, options, sellersStats, sellersMap, cursor,
                   sortedSellers, result, bonusVars>>

Aggregate ==
    /\ pc = "aggregate"
    /\ cursor <= Len(data.purchase_records)
    /\ LET r == PurchaseStep(data.purchase_records[cursor], sellersStats,
                             productsMap, options)
       IN  /\ sellersStats' = r.stats
           /\ IF r.err # "" THEN Throw(r.err) /\ UNCHANGED cursor
              ELSE pc' = "aggregate" /\ cursor' = cursor + 1 /\ UNCHANGED error
    /\ UNCHANGED <<data, input, options, sellersMap, productsMap, sortedSellers,
                   result, bonusVars>>

Rank ==
    /\ pc = "aggregate"
    /\ cursor > Len(data.purchase_records)
    /\ sortedSellers' = RankSellers(sellersStats)
    /\ cursor' = 1
    /\ pc' = "bonus"
    /\ UNCHANGED <<data, input, options, error, sellersStats, sellersMap,
                   productsMap, result, bonusVars>>

\* one call of the forEach callback, lines 181-199
AssignBonus ==
    /\ pc = "bonus"
    /\ cursor <= Len(sortedSellers)
    /\ LET seller == sortedSellers[cursor]
           ref == sellersMap.val[seller.seller_id]
           sellerInfo == WithProfit(data.sellers[ref], seller.profit)
           b == CallBonus(options.calculateBonus, cursor - 1, Len(sortedSellers),
                          sellerInfo)
       IN  /\ data' = [data EXCEPT !.sellers[ref] = sellerInfo]
           /\ IF b.err # "" THEN Throw(b.err) /\ UNCHANGED <<sortedSellers, cursor>>
              ELSE /\ sortedSellers' =
                        [sortedSellers EXCEPT ![cursor] =
                            [bonus |-> b.v,
                             top_products |-> TopProducts(seller, productsMap)] @@ seller]
                   /\ cursor' = cursor + 1
                   /\ UNCHANGED <<pc, error>>
    /\ UNCHANGED <<input, options, sellersStats, sellersMap, productsMap, result,
                   bonusVars>>

Emit ==
    /\ pc = "bonus"
    /\ cursor > Len(sortedSellers)
    /\ result' = [i \in 1..Len(sortedSellers) |-> Report(sortedSellers[i])]
    /\ pc' = "done"
    /\ UNCHANGED <<data, input, options, error, sellersStats, sellersMap,
                   productsMap, cursor, sortedSellers, bonusVars>>

Next == Validate \/ IndexSellers \/ IndexProducts \/ Aggregate \/ Rank
            \/ AssignBonus \/ Emit

----------------------------------------------------------------------------
(* a direct call of calculateBonusByProfit *)

CallBonusByProfit ==
    /\ bpc = "call"
    /\ LET b == calculateBonusByProfit(bIndex, bTotal, bSeller)
       IN  /\ bError' = b.err
           /\ bonusRate' = b.rate
           /\ bResult' = b.v
           /\ bpc' = IF b.err # "" THEN "thrown" ELSE "returned"
    /\ UNCHANGED <<bIndex, bTotal, bSeller, pipelineVars>>

NextBonus == CallBonusByProfit

----------------------------------------------------------------------------
(* Inputs *)

MaxSellers == 2
MaxRecords == 2
MaxItems == 4
MaxTotal == 6

Id2 == <<"2">>
Id10 == <<"1", "0">>
IdA == <<"a">>
IdX == <<"x">>

Seller(id, first, position) ==
    [id |-> id, first_name |-> first, last_name |-> "Lee", position |-> position]

SellerObjects ==
    {Seller(Id10, "Ann", "Seller"), Seller(Id2, "Bob", SeniorSeller),
     Seller(IdA, "Cy", "Seller")}

Sku3 == <<"3">>
Sku7 == <<"7">>
SkuB == <<"b">>
SkuC == <<"c">>
SkuU == <<"u">>

Product(sku, name, price) == [sku |-> sku, name |-> name, purchase_price |-> price]

\* purchase prices 10.00, 10.00, 0.50 and 1.00
Products ==
    <<Product(SkuB, "Bolt", Num(10000)), Product(SkuC, "Clip", Num(10000)),
      Product(Sku7, "Seal", Num(500)), Product(Sku3, "Tape", Num(1000))>>

Item(sku, price, quantity) == [sku |-> sku, sale_price |-> price, quantity |-> quantity]

Good == Item(SkuB, Num(25000), Num(2))     \* a known product, 2 at 25.00
Unresolved == Item(SkuU, Num(25000), Num(1))  \* a sku that is no product
NoSku == Item(<<>>, Num(25000), Num(1))    \* an item without sku

Purchase(id, items) == [seller_id |-> id, items |-> items]

ItemLists == {<<Good>>, <<Unresolved, Good>>, <<Unresolved>>, <<Good, NoSku>>}

Purchases == {Purchase(id, items) : id \in {Id2, Id10, IdX}, items \in ItemLists}

Datasets ==
    {[sellers |-> s, products |-> Products, purchase_records |-> p] :
        s \in SeqsUpTo(SellerObjects, MaxSellers) \ {<<>>},
        p \in SeqsUpTo(Purchases, MaxRecords) \ {<<>>}}

DefaultOptions ==
    [calculateRevenue |-> "calculateSimpleRevenue",
     calculateBonus   |-> "calculateBonusByProfit"]

BonusIdle ==
    /\ bpc = "idle"
    /\ bIndex = 0
    /\ bTotal = 0
    /\ bSeller = NullValue
    /\ bonusRate = 0
    /\ bResult = 0
    /\ bError = ""

\* the state at the call analyzeSalesData(d, o)
CallWith(D, O) ==
    /\ data \in D
    /\ input = data
    /\ options \in O
    /\ pc = "validate"
    /\ error = ""
    /\ sellersStats = EmptyObject
    /\ sellersMap = EmptyObject
    /\ productsMap = EmptyObject
    /\ cursor = 1
    /\ sortedSellers = <<>>
    /\ result = <<>>
    /\ BonusIdle

Init == CallWith(Datasets, {DefaultOptions})

Spec == Init /\ [][Next]_vars

(* Datasets and options of every shape the checks of lines 70-98 tell apart *)

Absent == [present |-> FALSE, v |-> <<>>]
Array(a) == [present |-> TRUE, v |-> a]

ObjectOf(sellers, products, records) ==
    LET fields == {f \in {"sellers", "products", "purchase_records"} :
                      CASE f = "sellers" -> sellers.present
                        [] f = "products" -> products.present
                        [] f = "purchase_records" -> records.present}
    IN  [f \in fields |->
            CASE f = "sellers" -> sellers.v
              [] f = "products" -> products.v
              [] f = "purchase_records" -> records.v]

ShapedDatasets ==
    {NullValue} \cup
    {ObjectOf(s, p, r) :
        s \in {Absent, Array(<<>>), Array(<<Seller(Id2, "Bob", SeniorSeller)>>),
               Array(<<Seller(Id2, "", "Seller")>>)},
        p \in {Absent, Array(<<>>), Array(Products),
               Array(<<Product(SkuB, "Bolt", NotANumber)>>)},
        r \in {Absent, Array(<<>>), Array(<<Purchase(Id2, <<Good>>)>>),
               Array(<<Purchase(<<>>, <<Good>>)>>)}}

OptionsOf(revenue, bonus) ==
    LET fields == {f \in {"calculateRevenue", "calculateBonus"} :
                      IF f = "calculateRevenue" THEN revenue # "undefined"
                      ELSE bonus # "undefined"}
    IN  [f \in fields |-> IF f = "calculateRevenue" THEN revenue ELSE bonus]

AllOptions ==
    {NullValue} \cup
    {OptionsOf(r, b) : r \in {"undefined", "not a function", "calculateSimpleRevenue"},
                       b \in {"undefined", "not a function", "calculateBonusByProfit"}}

InitValidate == CallWith(ShapedDatasets, AllOptions)

SpecValidate == InitValidate /\ [][Next]_vars

(* One seller's purchase with up to MaxItems items, among them two products of
   equal profit and different quantity, a price with a fraction of a cent, and
   more than TopCount distinct products *)

Bolt1 == Item(SkuB, Num(25000), Num(1))    \* 25.00 - 10.00       = 15.00
Clip2 == Item(SkuC, Num(17500), Num(2))    \* 2 * (17.50 - 10.00) = 15.00
Seal1 == Item(Sku7, Num(1004), Num(1))     \* 1.004 - 0.50
Tape1 == Item(Sku3, Num(3000), Num(1))     \* 3.00 - 1.00         = 2.00

RichItems == {Bolt1, Clip2, Seal1, Tape1, Unresolved}

ItemDatasets ==
    {[sellers |-> <<Seller(Id2, "Bob", SeniorSeller), Seller(Id10, "Ann", "Seller")>>,
      products |-> Products,
      purchase_records |-> <<Purchase(id, items), Purchase(Id10, <<Good>>)>>] :
        id \in {Id2, IdX}, items \in SeqsUpTo(RichItems, MaxItems)}

InitItems == CallWith(ItemDatasets, {DefaultOptions})

SpecItems == InitItems /\ [][Next]_vars

(* Five sellers, each with one purchase *)

FiveSellers ==
    <<Seller(<<"a">>, "Ann", "Seller"), Seller(<<"b">>, "Bob", SeniorSeller),
      Seller(<<"c">>, "Cy", "Seller"), Seller(<<"d">>, "Dee", SeniorSeller),
      Seller(<<"e">>, "Eve", "Seller")>>

FiveDatasets ==
    {[sellers |-> FiveSellers,
      products |-> Products,
      purchase_records |-> [i \in 1..5 |-> Purchase(FiveSellers[i].id, items[i])]] :
        items \in [1..5 -> {<<Good>>, <<Good, Good>>, <<Bolt1>>}]}

InitFive == CallWith(FiveDatasets, {DefaultOptions})

SpecFive == InitFive /\ [][Next]_vars

(* Direct calls calculateBonusByProfit(index, total, seller) *)

BonusSellers ==
    {NullValue, [position |-> "Seller"], [position |-> "Seller", profit |-> NotANumber]}
        \cup {[position |-> p, profit |-> Num(x)] :
                 p \in {"Seller", SeniorSeller}, x \in {-30000, 0, 30000, 60000}}

InitBonus ==
    /\ bpc = "call"
    /\ bIndex \in -1..MaxTotal
    /\ bTotal \in 0..MaxTotal
    /\ bSeller \in BonusSellers
    /\ bonusRate = 0
    /\ bResult = 0
    /\ bError = ""
    /\ data = NullValue
    /\ input = NullValue
    /\ options = DefaultOptions
    /\ pc = "idle"
    /\ error = ""
    /\ sellersStats = EmptyObject
    /\ sellersMap = EmptyObject
    /\ productsMap = EmptyObject
    /\ cursor = 1
    /\ sortedSellers = <<>>
    /\ result = <<>>

SpecBonus == InitBonus /\ [][NextBonus]_vars

----------------------------------------------------------------------------
(* Properties *)

Returned == pc = "done"
Failed == pc = "failed"

RECURSIVE SumFn(_)
SumFn(f) ==
    IF DOMAIN f = {} THEN 0
    ELSE LET x == CHOOSE y \in DOMAIN f : TRUE
         IN  f[x] + SumFn([y \in DOMAIN f \ {x} |-> f[y]])

Min(a, b) == IF a < b THEN a ELSE b

InputSellerIds == {input.sellers[i].id : i \in DOMAIN input.sellers}
ResultIds == {result[i].seller_id : i \in DOMAIN result}
RecordsOf(id) ==
    {k \in DOMAIN input.purchase_records : input.purchase_records[k].seller_id = id}
KnownSkus == {input.products[i].sku : i \in DOMAIN input.products}
ProductOf(sku) == CHOOSE q \in Range(input.products) : q.sku = sku
FirstPosition(id) ==
    CHOOSE i \in DOMAIN input.sellers :
        /\ input.sellers[i].id = id
        /\ \A j \in 1..(i - 1) : input.sellers[j].id # id
PositionOf(id) == input.sellers[FirstPosition(id)].position

\* <<k, j>>: item j of record k belongs to seller id and names a known product
ResolvedItems(id) ==
    {kj \in UNION {{<<k, j>> : j \in DOMAIN input.purchase_records[k].items} :
                       k \in RecordsOf(id)} :
        input.purchase_records[kj[1]].items[kj[2]].sku \in KnownSkus}
ItemAt(kj) == input.purchase_records[kj[1]].items[kj[2]]
ItemCost(item) == ProductOf(item.sku).purchase_price.v * item.quantity.v

LacksStrategy(o) ==
    /\ ~IsNull(o)
    /\ \/ ~Has(o, "calculateRevenue") \/ ~Has(o, "calculateBonus")
       \/ o.calculateRevenue = "not a function" \/ o.calculateBonus = "not a function"
MissingStrategyErrors == {ErrRevenueRequired, ErrBonusRequired}
DatasetErrors ==
    {ErrDataObject, ErrDataStructure, ErrSellersEmpty, ErrProductsEmpty, ErrPurchasesEmpty}
WellShaped(d) ==
    /\ ~IsNull(d)
    /\ {"sellers", "products", "purchase_records"} \subseteq DOMAIN d
    /\ d.sellers # <<>> /\ d.products # <<>> /\ d.purchase_records # <<>>

\* C1 as stated: when options lacks a strategy, the call fails with the
\* missing-strategy error whatever the dataset is.
C1_StrategyErrorForEveryDataset ==
    (pc # "validate" /\ LacksStrategy(options))
        => (Failed /\ error \in MissingStrategyErrors)

\* C1 amended: when options lacks a strategy, the call fails before any seller,
\* product or purchase record is examined; the error is the missing-strategy
\* error exactly when the dataset is an object with non-empty sellers, products
\* and purchase_records, and the dataset error otherwise.
C1_StrategyErrorAfterShapeChecks ==
    (pc # "validate" /\ LacksStrategy(options))
        => /\ Failed
           /\ sellersStats = EmptyObject /\ sellersMap = EmptyObject
           /\ productsMap = EmptyObject
           /\ WellShaped(input) => error \in MissingStrategyErrors
           /\ ~WellShaped(input) => error \in DatasetErrors

\* a well-shaped dataset with an invalid seller, rejected for the strategy
C1_Witness ==
    /\ Failed /\ LacksStrategy(options) /\ error = ErrBonusRequired
    /\ WellShaped(input) /\ input.sellers[1].first_name = ""

\* C2: after a call, successful or failing, the dataset's seller objects are
\* as they were passed.
C2_SellersNotMutated == (Returned \/ Failed) => data = input

C4_RevenueIsSumOverResolvedItems ==
    Returned =>
        \A i \in DOMAIN result :
            LET S == ResolvedItems(result[i].seller_id)
                revenue == SumFn([kj \in S |->
                                    ItemAt(kj).sale_price.v * ItemAt(kj).quantity.v])
                cost == SumFn([kj \in S |-> ItemCost(ItemAt(kj))])
            IN  /\ result[i].revenue = ToFixed2(revenue)
                /\ result[i].profit = ToFixed2(revenue - cost)

\* C5: sales_count is the number of purchase records with the seller's id,
\* whether or not their items name known products.
C5_SalesCountCountsRecords ==
    Returned =>
        \A i \in DOMAIN result :
            result[i].sales_count = Cardinality(RecordsOf(result[i].seller_id))

\* two records counted for a seller, one of them without any known product
C5_Witness ==
    /\ Returned
    /\ \E i \in DOMAIN result :
          /\ result[i].sales_count = 2
          /\ \E k \in RecordsOf(result[i].seller_id) :
                input.purchase_records[k].items = <<Unresolved>>
          /\ \E k \in RecordsOf(result[i].seller_id) :
                input.purchase_records[k].items = <<Unresolved, Good>>

\* the rate of C6, by band
ClaimedRate(index, total) ==
    CASE index = 0 -> 15
      [] index \in {1, 2} -> 10
      [] index > 2 /\ index = total - 2 -> 5
      [] OTHER -> 0

\* amount is profit * rate% * multiplier/10 to the nearest cent (all in mills)
IsBonusOf(amount, profit, rate, senior) ==
    /\ amount % 10 = 0
    /\ 2 * Abs(1000 * amount - profit * rate * (IF senior THEN 15 ELSE 10)) <= 10000

\* C6: calculateBonusByProfit takes the rate of the first matching band
\* (index 0: 15%, index 1 or 2: 10%, index total-2: 5%, else 0%), times 1.5
\* exactly for a "Senior Seller", and fails for an index outside [0, total).
C6_FirstMatchingBand ==
    /\ bpc = "returned" =>
          /\ bIndex \in 0..(bTotal - 1)
          /\ bonusRate = ClaimedRate(bIndex, bTotal)
          /\ bTotal = 2 /\ bIndex = 0 => bonusRate = 15
          /\ bTotal = 4 /\ bIndex = 2 => bonusRate = 10
          /\ IsBonusOf(bResult, bSeller.profit.v, bonusRate,
                       bSeller.position = "Senior Seller")
    /\ (bpc # "call" /\ ~IsNull(bSeller) /\ bIndex \notin 0..(bTotal - 1)) =>
          bpc = "thrown" /\ bError = ErrIndexRange

C6_Witness ==
    /\ bpc = "returned" /\ bTotal = 4 /\ bIndex = 2 /\ bonusRate = 10
    /\ bSeller.position = "Senior Seller" /\ bResult = 4500

C7_ResultHasRates(rates) ==
    \A i \in DOMAIN result :
        IsBonusOf(result[i].bonus, result[i].profit, rates[i],
                  PositionOf(result[i].seller_id) = "Senior Seller")

\* C7 as stated: with 5 sellers the rates by rank are 15%, 10%, 10%, 0%, 5%.
C7_RatesLastButOneZero ==
    (Returned /\ Len(result) = 5) => C7_ResultHasRates(<<15, 10, 10, 0, 5>>)

\* C7 amended: with 5 sellers the rates by rank are 15%, 10%, 10%, 5%, 0%
\* (rank 3 is total-2), each times 1.5 for a "Senior Seller" only.
C7_RatesLastZero ==
    (Returned /\ Len(result) = 5) => C7_ResultHasRates(<<15, 10, 10, 5, 0>>)

C7_Witness ==
    /\ Returned /\ Len(result) = 5
    /\ result[4].bonus > 0 /\ result[5].bonus = 0 /\ result[5].profit > 0
    /\ PositionOf(result[4].seller_id) = "Senior Seller"

\* C8: the result is ordered by profit, non-increasing, and sellers of equal
\* profit are in the order of data.sellers.
C8_RankedStably ==
    Returned =>
        \A i, j \in DOMAIN result :
            i < j => /\ result[i].profit >= result[j].profit
                     /\ result[i].profit = result[j].profit =>
                           FirstPosition(result[i].seller_id)
                               < FirstPosition(result[j].seller_id)

BadItem(item) ==
    item.sku = <<>> \/ ~IsNumber(item.sale_price) \/ ~IsNumber(item.quantity)

\* C9: a dataset with a line item that has no sku or a non-numeric sale_price
\* or quantity yields no report.
C9_BadItemFailsTheCall ==
    (\E k \in DOMAIN input.purchase_records :
        \E j \in DOMAIN input.purchase_records[k].items :
            BadItem(input.purchase_records[k].items[j]))
        => ~Returned

\* the accumulated count and profit of one sku for one seller
SkuCount(id, sku) ==
    SumFn([kj \in {x \in ResolvedItems(id) : ItemAt(x).sku = sku} |->
              ItemAt(kj).quantity.v])
SkuProfit(id, sku) ==
    SumFn([kj \in {x \in ResolvedItems(id) : ItemAt(x).sku = sku} |->
              calculateSimpleRevenue([items |-> <<ItemAt(kj)>>]).v
                  - ItemCost(ItemAt(kj))])

\* C10: top_products holds min(3, distinct known skus sold) entries, those of
\* highest accumulated profit, by profit descending and, for equal profit, by
\* count descending; count and profit are the sums over the seller's items.
C10_TopProductsByProfitThenCount ==
    Returned =>
        \A i \in DOMAIN result :
            LET id == result[i].seller_id
                top == result[i].top_products
                sold == {ItemAt(kj).sku : kj \in ResolvedItems(id)}
                listed == {top[a].sku : a \in DOMAIN top}
            IN  /\ Len(top) = Min(3, Cardinality(sold))
                /\ Cardinality(listed) = Len(top)
                /\ listed \subseteq sold
                /\ \A a \in DOMAIN top :
                      /\ top[a].count = SkuCount(id, top[a].sku)
                      /\ top[a].profit = ToFixed2(SkuProfit(id, top[a].sku))
                      /\ \A sku \in sold \ listed :
                            ToFixed2(SkuProfit(id, sku)) <= top[a].profit
                /\ \A a, b \in DOMAIN top :
                      a < b => \/ top[a].profit > top[b].profit
                               \/ /\ top[a].profit = top[b].profit
                                  /\ top[a].count >= top[b].count

====
